---- MODULE Spec2Model ----
(***************************************************************************)
(* Subscription tiers, feature access and daily usage limits of the        *)
(* conceptus-veritas backend: SubscriptionService, RateLimitService and    *)
(* the FastAPI dependencies built on them, over the three tables           *)
(* user_subscriptions, feature_usage and subscription_events.              *)
(***************************************************************************)
EXTENDS Integers, Sequences, FiniteSets, TLC

(***************************************************************************)
(* Bounds of the model.                                                    *)
(***************************************************************************)
MaxDay == 1
MaxAmount == 2
MaxEvents == 2
NumProcs == 3
\* Cap on a counter that no limit caps (a tier without limit entries).
MaxCount == 5

Days == 0..MaxDay
Procs == 1..NumProcs
\* Amounts a caller may pass: the code accepts any int, 0 and -1 included.
MinAmount == 0 - 1
Amounts == MinAmount..MaxAmount

VARIABLES
    user_subscriptions,   \* table user_subscriptions: sequence of rows
    feature_usage,        \* table feature_usage: (user, feature, date) -> usage_count
    subscription_events,  \* table subscription_events: sequence of rows
    today,                \* date.today()
    response,             \* what the call that completed last returned
    requests              \* in-flight requests: each handler's position and locals

vars == <<user_subscriptions, feature_usage, subscription_events, today,
          response, requests>>

(***************************************************************************)
(* Static configuration.                                                   *)
(***************************************************************************)
UNLIMITED == 9999

TIER_LIMITS ==
    [free |->
        [ask_questions |-> 10, journal_entries |-> 5, quest_daily |-> 1,
         forum_threads |-> 3, forum_comments |-> 10, forum_votes |-> 20,
         insight_expansion |-> 0, save_to_journal |-> 5,
         concept_tagging |-> 3, media_attachments |-> 2],
     premium |->
        [ask_questions |-> 50, journal_entries |-> 100000, quest_daily |-> 3,
         forum_threads |-> 10, forum_comments |-> 30, forum_votes |-> 50,
         insight_expansion |-> 5, save_to_journal |-> 25,
         concept_tagging |-> 10, media_attachments |-> 5],
     pro |->
        [ask_questions |-> 100000, journal_entries |-> 100000, quest_daily |-> 5,
         forum_threads |-> 100000, forum_comments |-> 100000,
         forum_votes |-> 100000, insight_expansion |-> 100000,
         save_to_journal |-> 100000, concept_tagging |-> 100000,
         media_attachments |-> 100000]]

\* Variant: the free and the pro limits swapped.
LimitsOf_Swapped(tier) ==
    IF tier = "free" THEN TIER_LIMITS["pro"]
    ELSE IF tier = "pro" THEN TIER_LIMITS["free"]
    ELSE IF tier \in DOMAIN TIER_LIMITS THEN TIER_LIMITS[tier] ELSE <<>>

\* TIER_LIMITS.get(tier, {})
LimitsOf(tier) ==
    IF tier \in DOMAIN TIER_LIMITS THEN TIER_LIMITS[tier] ELSE <<>>

HasLimit(tier, feature_name) == feature_name \in DOMAIN LimitsOf(tier)

Max(a, b) == IF a >= b THEN a ELSE b
Min(a, b) == IF a <= b THEN a ELSE b

(***************************************************************************)
(* Reads of the subscription table.  An Optional[row] is a sequence of     *)
(* length 0 (None) or 1.                                                   *)
(***************************************************************************)
SubscriptionRow(u, tier, status, cape) ==
    [user_id |-> u, subscription_tier |-> tier, status |-> status,
     cancel_at_period_end |-> cape]

\* .filter(user_id == u).first()
get_user_subscription(subs, u) ==
    LET rows == SelectSeq(subs, LAMBDA r : r.user_id = u)
    IN  IF rows = <<>> THEN <<>> ELSE <<rows[1]>>

\* Variant: every status counts as active.
is_active_Always(row) == TRUE

is_active(row) == row.status = "active"

get_user_tier(subs, u) ==
    LET subscription == get_user_subscription(subs, u)
    IN  IF subscription = <<>> \/ ~is_active(subscription[1])
        THEN "free"
        ELSE subscription[1].subscription_tier

(***************************************************************************)
(* Reads and writes of the usage table.                                    *)
(***************************************************************************)
\* Variant: the key leaves the date out.
UsageKey_NoDate(u, f, d) == <<u, f, 0>>

\* Variant: the key leaves the feature out.
UsageKey_NoFeature(u, f, d) == <<u, "", d>>

UsageKey(u, f, d) == <<u, f, d>>

\* usage.usage_count if usage else 0
UsedToday(usage, u, f, d) ==
    IF UsageKey(u, f, d) \in DOMAIN usage THEN usage[UsageKey(u, f, d)] ELSE 0

\* Variant: the limit itself still counts as allowed.
check_usage_limit_OffByOne(subs, usage, d, u, f) ==
    LET user_tier == get_user_tier(subs, u)
    IN  IF ~HasLimit(user_tier, f)
        THEN [allowed |-> TRUE, remaining |-> UNLIMITED]
        ELSE LET daily_limit == LimitsOf(user_tier)[f]
                 remaining == Max(0, daily_limit - UsedToday(usage, u, f, d))
             IN  [allowed |-> remaining >= 0, remaining |-> remaining]

check_usage_limit(subs, usage, d, u, f) ==
    LET user_tier == get_user_tier(subs, u)
    IN  IF ~HasLimit(user_tier, f)
        THEN [allowed |-> TRUE, remaining |-> UNLIMITED]
        ELSE LET daily_limit == LimitsOf(user_tier)[f]
                 remaining == Max(0, daily_limit - UsedToday(usage, u, f, d))
             IN  [allowed |-> remaining > 0, remaining |-> remaining]

\* get-or-create the row, add the amount, commit
increment_usage(usage, d, u, f, amount) ==
    LET k == UsageKey(u, f, d)
    IN  IF k \notin DOMAIN usage
        THEN usage @@ (k :> amount)
        ELSE [usage EXCEPT ![k] = @ + amount]

(***************************************************************************)
(* RateLimitService.                                                       *)
(***************************************************************************)
\* The metadata dict.  Keys the untracked branch leaves out carry the value
\* get_rate_limit_headers reads for a missing key (limit 0, upgrade False).
Metadata(tier, limit_type, limit, upgrade_required) ==
    [tier |-> tier, limit_type |-> limit_type, limit |-> limit,
     upgrade_required |-> upgrade_required]

\* The body of check_rate_limit once the tier of line 53 is known; the
\* nested check_usage_limit looks the tier up again in subs.
RateLimitFor(user_tier, subs, usage, d, u, f) ==
    IF ~HasLimit(user_tier, f)
    THEN [allowed |-> TRUE, remaining |-> UNLIMITED,
          metadata |-> Metadata(user_tier, "none", 0, FALSE)]
    ELSE LET chk == check_usage_limit(subs, usage, d, u, f)
         IN  [allowed |-> chk.allowed, remaining |-> chk.remaining,
              metadata |-> Metadata(user_tier, "daily", LimitsOf(user_tier)[f],
                                    ~chk.allowed /\ user_tier # "pro")]

check_rate_limit(subs, usage, d, u, f) ==
    RateLimitFor(get_user_tier(subs, u), subs, usage, d, u, f)

\* Variant: the requested amount is written uncapped.
IncrementAmount_Uncapped(amount, remaining) == amount

\* Only increment by what's allowed (cap at remaining)
IncrementAmount(amount, remaining) == Min(amount, remaining)

\* Recalculate remaining uses
RemainingAfter(remaining, increment_amount) == Max(0, remaining - increment_amount)

\* Variant: increment_usage is called whether or not the call is allowed.
increment_and_check_NoGuard(subs, usage, d, u, f, amount) ==
    LET chk == check_rate_limit(subs, usage, d, u, f)
        increment_amount == IncrementAmount(amount, chk.remaining)
    IN  [allowed |-> chk.allowed,
         remaining |-> RemainingAfter(chk.remaining, increment_amount),
         metadata |-> chk.metadata,
         usage |-> increment_usage(usage, d, u, f, increment_amount),
         writes |-> <<increment_amount>>]

\* One whole call: the result tuple, the usage table it leaves, and the
\* amounts it passed to increment_usage (none, or one).
increment_and_check(subs, usage, d, u, f, amount) ==
    LET chk == check_rate_limit(subs, usage, d, u, f)
        increment_amount == IncrementAmount(amount, chk.remaining)
    IN  IF chk.allowed
        THEN [allowed |-> TRUE,
              remaining |-> RemainingAfter(chk.remaining, increment_amount),
              metadata |-> chk.metadata,
              usage |-> increment_usage(usage, d, u, f, increment_amount),
              writes |-> <<increment_amount>>]
        ELSE [allowed |-> FALSE, remaining |-> chk.remaining,
              metadata |-> chk.metadata, usage |-> usage, writes |-> <<>>]

(***************************************************************************)
(* What a completed call returned.                                         *)
(***************************************************************************)
\* A field the caller left unset, a value that is None.
Unset == "None"

\* writes: the amounts the call passed to increment_usage, in order.
\* required_tier: the tier a feature-access answer names, or the tier an
\* upgrade request asked for (None elsewhere).
\* failed: the store call whose failure ended the call (None: none failed).
\* subscription_status, is_active, usage_summary: what a subscription
\* summary reports.  now, reset_seconds, reset_time: the clock reading of a
\* call and the reset instant it reports, in seconds.
Response(op, u, f, amount, status, allowed, remaining, meta, writes) ==
    [op |-> op, user |-> u, feature |-> f, amount |-> amount,
     status |-> status, allowed |-> allowed, remaining |-> remaining,
     tier |-> meta.tier, limit_type |-> meta.limit_type, limit |-> meta.limit,
     writes |-> writes, required_tier |-> Unset, failed |-> Unset,
     subscription_status |-> Unset, is_active |-> FALSE, usage_summary |-> <<>>,
     now |-> 0, reset_seconds |-> 0, reset_time |-> 0]

NoMeta == Metadata("", "", 0, FALSE)
NoResponse == Response("none", "", "", 0, "", FALSE, 0, NoMeta, <<>>)

\* Outcome of a handler: it returned, or raised HTTPException(status_code).
HTTP_200_OK == "200"
HTTP_400_BAD_REQUEST == "400"
HTTP_402_PAYMENT_REQUIRED == "402"
HTTP_404_NOT_FOUND == "404"
HTTP_429_TOO_MANY_REQUESTS == "429"
HTTP_500_INTERNAL_SERVER_ERROR == "500"

\* A handler's locals and what its database session holds.  subscription and
\* row are the Optional[UserSubscription] and the Optional[FeatureUsage] (its
\* usage_count) the session has loaded: a later query in the same session
\* returns a loaded object as it was loaded.  result is the count
\* increment_usage returned, limit the limit put in the metadata, tier the
\* tier a create_subscription request asks for.  check_date and usage_date
\* are the date.today() of check_usage_limit and of increment_usage.
Request(pc, op, u, f, amount) ==
    [pc |-> pc, op |-> op, user |-> u, feature |-> f, amount |-> amount,
     user_tier |-> "", allowed |-> FALSE, remaining |-> 0,
     increment_amount |-> 0, usage_date |-> 0, row |-> <<>>, result |-> 0,
     subscription |-> <<>>, limit |-> 0, tier |-> "", check_date |-> 0]

\* No request in flight.
Idle == Request("idle", "", "", "", 0)

(***************************************************************************)
(* Sequential operations: one request at a time, each handler one step.    *)
(***************************************************************************)
\* Variant: the check consumes one use.
CheckRateLimit_Consumes(u, f) ==
    LET r == check_rate_limit(user_subscriptions, feature_usage, today, u, f)
    IN  /\ response' = Response("check_rate_limit", u, f, 0, HTTP_200_OK,
                                r.allowed, r.remaining, r.metadata, <<>>)
        /\ feature_usage' =
               IF r.allowed /\ r.remaining # UNLIMITED
               THEN increment_usage(feature_usage, today, u, f, 1)
               ELSE feature_usage
        /\ UNCHANGED <<user_subscriptions, subscription_events, today, requests>>

\* Variant: the check gets or creates today's row.
CheckRateLimit_Creates(u, f) ==
    LET r == check_rate_limit(user_subscriptions, feature_usage, today, u, f)
    IN  /\ response' = Response("check_rate_limit", u, f, 0, HTTP_200_OK,
                                r.allowed, r.remaining, r.metadata, <<>>)
        /\ feature_usage' =
               IF UsageKey(u, f, today) \in DOMAIN feature_usage
               THEN feature_usage
               ELSE increment_usage(feature_usage, today, u, f, 0)
        /\ UNCHANGED <<user_subscriptions, subscription_events, today, requests>>

CheckRateLimit(u, f) ==
    LET r == check_rate_limit(user_subscriptions, feature_usage, today, u, f)
    IN  /\ response' = Response("check_rate_limit", u, f, 0, HTTP_200_OK,
                                r.allowed, r.remaining, r.metadata, <<>>)
        /\ UNCHANGED <<user_subscriptions, feature_usage, subscription_events,
                       today, requests>>

IncrementAndCheck(u, f, amount) ==
    LET r == increment_and_check(user_subscriptions, feature_usage, today,
                                 u, f, amount)
    IN  /\ feature_usage' = r.usage
        /\ response' = Response("increment_and_check", u, f, amount, HTTP_200_OK,
                                r.allowed, r.remaining, r.metadata, r.writes)
        /\ UNCHANGED <<user_subscriptions, subscription_events, today, requests>>

\* SubscriptionService.increment_usage called on its own; remaining carries
\* the count it returns.
IncrementUsage(u, f, amount) ==
    /\ feature_usage' = increment_usage(feature_usage, today, u, f, amount)
    /\ response' = Response("increment_usage", u, f, amount, HTTP_200_OK, TRUE,
                            UsedToday(feature_usage', u, f, today), NoMeta,
                            <<amount>>)
    /\ UNCHANGED <<user_subscriptions, subscription_events, today, requests>>

\* Depends(verify_usage_limit(feature_name))
VerifyUsageLimit(u, f) ==
    LET r == check_rate_limit(user_subscriptions, feature_usage, today, u, f)
    IN  /\ response' = Response("verify_usage_limit", u, f, 0,
                                IF r.allowed THEN HTTP_200_OK
                                ELSE HTTP_429_TOO_MANY_REQUESTS,
                                r.allowed, r.remaining, r.metadata, <<>>)
        /\ UNCHANGED <<user_subscriptions, feature_usage, subscription_events,
                       today, requests>>

\* Depends(track_usage(feature_name, amount)): never raises on a denial
TrackUsage(u, f, amount) ==
    LET r == increment_and_check(user_subscriptions, feature_usage, today,
                                 u, f, amount)
    IN  /\ feature_usage' = r.usage
        /\ response' = Response("track_usage", u, f, amount, HTTP_200_OK,
                                r.allowed, r.remaining, r.metadata, r.writes)
        /\ UNCHANGED <<user_subscriptions, subscription_events, today, requests>>

\* GET /usage-limits/{feature_name}
UsageLimitsRoute(u, f) ==
    LET user_tier == get_user_tier(user_subscriptions, u)
        r == check_rate_limit(user_subscriptions, feature_usage, today, u, f)
    IN  /\ response' =
              IF ~HasLimit(user_tier, f)
              THEN Response("usage_limits", u, f, 0, HTTP_200_OK, TRUE, 0,
                            Metadata(user_tier, "none", 0, FALSE), <<>>)
              ELSE Response("usage_limits", u, f, 0, HTTP_200_OK, r.allowed,
                            r.remaining,
                            Metadata(user_tier, "daily", LimitsOf(user_tier)[f],
                                     FALSE), <<>>)
        /\ UNCHANGED <<user_subscriptions, feature_usage, subscription_events,
                       today, requests>>

\* The calendar day advances; no call has completed since.
Tick ==
    /\ today < MaxDay
    /\ today' = today + 1
    /\ response' = NoResponse
    /\ UNCHANGED <<user_subscriptions, feature_usage, subscription_events,
                   requests>>

(***************************************************************************)
(* SubscriptionService: the subscription lifecycle.                        *)
(***************************************************************************)
SubscriptionEvent(u, event_type, previous_tier, new_tier) ==
    [user_id |-> u, event_type |-> event_type,
     previous_tier |-> previous_tier, new_tier |-> new_tier]

\* Variant: the user's latest event is rewritten in place.
record_subscription_event_Overwrite(events, u, event_type, previous_tier, new_tier) ==
    IF events = <<>>
    THEN <<SubscriptionEvent(u, event_type, previous_tier, new_tier)>>
    ELSE [events EXCEPT ![Len(events)] =
             SubscriptionEvent(u, event_type, previous_tier, new_tier)]

\* db.add(event); db.commit()
record_subscription_event(events, u, event_type, previous_tier, new_tier) ==
    Append(events, SubscriptionEvent(u, event_type, previous_tier, new_tier))

\* Index of the row get_user_subscription returns (0 when there is none).
SubscriptionIndex(subs, u) ==
    IF \E i \in 1..Len(subs) : subs[i].user_id = u
    THEN CHOOSE i \in 1..Len(subs) :
            /\ subs[i].user_id = u
            /\ \A j \in 1..(i - 1) : subs[j].user_id # u
    ELSE 0

LifecycleResponse(op, u, status, subs) ==
    Response(op, u, "", 0, status, FALSE, 0,
             Metadata(get_user_tier(subs, u), "", 0, FALSE), <<>>)

\* Variant: a second create replaces the user's row before it is refused.
CreateSubscription_Replace(u, tier, status) ==
    LET i == SubscriptionIndex(user_subscriptions, u)
    IN  IF i # 0
        THEN /\ user_subscriptions' =
                    [user_subscriptions EXCEPT
                        ![i] = SubscriptionRow(u, tier, status, FALSE)]
             /\ response' = LifecycleResponse("create_subscription", u,
                                              HTTP_400_BAD_REQUEST, user_subscriptions')
             /\ UNCHANGED <<feature_usage, subscription_events, today, requests>>
        ELSE /\ Len(subscription_events) < MaxEvents
             /\ user_subscriptions' =
                    Append(user_subscriptions, SubscriptionRow(u, tier, status, FALSE))
             /\ subscription_events' =
                    record_subscription_event(subscription_events, u,
                                              "subscription_created", Unset, tier)
             /\ response' = LifecycleResponse("create_subscription", u, HTTP_200_OK,
                                              user_subscriptions')
             /\ UNCHANGED <<feature_usage, today, requests>>

CreateSubscription(u, tier, status) ==
    IF get_user_subscription(user_subscriptions, u) # <<>>
    THEN /\ response' = LifecycleResponse("create_subscription", u,
                                          HTTP_400_BAD_REQUEST, user_subscriptions)
         /\ UNCHANGED <<user_subscriptions, feature_usage, subscription_events,
                        today, requests>>
    ELSE /\ Len(subscription_events) < MaxEvents
         /\ user_subscriptions' =
                Append(user_subscriptions, SubscriptionRow(u, tier, status, FALSE))
         /\ subscription_events' =
                record_subscription_event(subscription_events, u,
                                          "subscription_created", Unset, tier)
         /\ response' = LifecycleResponse("create_subscription", u, HTTP_200_OK,
                                          user_subscriptions')
         /\ UNCHANGED <<feature_usage, today, requests>>

\* setattr(subscription, key, value) for every field the caller set
ApplyUpdate(row, tier, status, cape) ==
    [row EXCEPT
        !.subscription_tier = IF tier = Unset THEN @ ELSE tier,
        !.status = IF status = Unset THEN @ ELSE status,
        !.cancel_at_period_end = IF cape = Unset THEN @ ELSE cape = "True"]

UpdateSubscription(u, tier, status, cape) ==
    LET i == SubscriptionIndex(user_subscriptions, u)
    IN  IF i = 0
        THEN /\ response' = LifecycleResponse("update_subscription", u,
                                              HTTP_404_NOT_FOUND, user_subscriptions)
             /\ UNCHANGED <<user_subscriptions, feature_usage, subscription_events,
                            today, requests>>
        ELSE LET previous_tier == user_subscriptions[i].subscription_tier
                 tier_changed == tier # Unset /\ previous_tier # tier
             IN  /\ tier_changed => Len(subscription_events) < MaxEvents
                 /\ user_subscriptions' =
                        [user_subscriptions EXCEPT
                            ![i] = ApplyUpdate(@, tier, status, cape)]
                 /\ subscription_events' =
                        IF tier_changed
                        THEN record_subscription_event(subscription_events, u,
                                 "subscription_changed", previous_tier, tier)
                        ELSE subscription_events
                 /\ response' = LifecycleResponse("update_subscription", u,
                                                  HTTP_200_OK, user_subscriptions')
                 /\ UNCHANGED <<feature_usage, today, requests>>

\* Variant: an immediate cancellation sets the status and keeps the tier.
CancelSubscription_KeepsTier(u, immediate) ==
    LET i == SubscriptionIndex(user_subscriptions, u)
    IN  IF i = 0
        THEN /\ response' = LifecycleResponse("cancel_subscription", u,
                                              HTTP_404_NOT_FOUND, user_subscriptions)
             /\ UNCHANGED <<user_subscriptions, feature_usage, subscription_events,
                            today, requests>>
        ELSE /\ Len(subscription_events) < MaxEvents
             /\ user_subscriptions' =
                    [user_subscriptions EXCEPT ![i] =
                        IF immediate
                        THEN [@ EXCEPT !.status = "canceled"]
                        ELSE [@ EXCEPT !.cancel_at_period_end = TRUE]]
             /\ subscription_events' =
                    record_subscription_event(subscription_events, u,
                        IF immediate THEN "subscription_canceled_immediate"
                        ELSE "subscription_canceled_period_end",
                        user_subscriptions'[i].subscription_tier,
                        IF immediate THEN "free"
                        ELSE user_subscriptions'[i].subscription_tier)
             /\ response' = LifecycleResponse("cancel_subscription", u,
                                              HTTP_200_OK, user_subscriptions')
             /\ UNCHANGED <<feature_usage, today, requests>>

CancelSubscription(u, immediate) ==
    LET i == SubscriptionIndex(user_subscriptions, u)
    IN  IF i = 0
        THEN /\ response' = LifecycleResponse("cancel_subscription", u,
                                              HTTP_404_NOT_FOUND, user_subscriptions)
             /\ UNCHANGED <<user_subscriptions, feature_usage, subscription_events,
                            today, requests>>
        ELSE /\ Len(subscription_events) < MaxEvents
             /\ user_subscriptions' =
                    [user_subscriptions EXCEPT ![i] =
                        IF immediate
                        THEN [@ EXCEPT !.status = "canceled",
                                       !.subscription_tier = "free"]
                        ELSE [@ EXCEPT !.cancel_at_period_end = TRUE]]
             \* previous_tier is read from the row after it was changed
             /\ subscription_events' =
                    record_subscription_event(subscription_events, u,
                        IF immediate THEN "subscription_canceled_immediate"
                        ELSE "subscription_canceled_period_end",
                        user_subscriptions'[i].subscription_tier,
                        IF immediate THEN "free"
                        ELSE user_subscriptions'[i].subscription_tier)
             /\ response' = LifecycleResponse("cancel_subscription", u,
                                              HTTP_200_OK, user_subscriptions')
             /\ UNCHANGED <<feature_usage, today, requests>>

(***************************************************************************)
(* Feature catalog and the tier and feature gates.                         *)
(***************************************************************************)
TIER_FEATURES ==
    [free |->
        {"basic_ask", "basic_journal", "basic_quest", "basic_explore",
         "basic_forum"},
     premium |->
        {"basic_ask", "basic_journal", "basic_quest", "basic_explore",
         "basic_forum", "advanced_ask", "unlimited_journal", "advanced_quest",
         "advanced_explore", "advanced_forum", "extended_responses",
         "insight_expansion", "advanced_visualization"},
     pro |->
        {"basic_ask", "basic_journal", "basic_quest", "basic_explore",
         "basic_forum", "advanced_ask", "unlimited_journal", "advanced_quest",
         "advanced_explore", "advanced_forum", "extended_responses",
         "insight_expansion", "advanced_visualization", "unlimited_ask",
         "custom_pathways", "premium_ai_models", "exclusive_content",
         "unlimited_export"}]

\* The order in which the code iterates TIER_FEATURES.
TierOrder == <<"free", "premium", "pro">>

\* tier_levels.get(tier, 0)
tier_levels(tier) ==
    CASE tier = "premium" -> 1
      [] tier = "pro" -> 2
      [] OTHER -> 0

\* Variant: a tier grants only what no lower tier lists.
AvailableFeatures_Exclusive(user_tier) ==
    LET idx == {i \in 1..Len(TierOrder) : TierOrder[i] = user_tier}
    IN  IF idx = {} THEN {}
        ELSE LET k == CHOOSE i \in idx : TRUE
             IN  TIER_FEATURES[TierOrder[k]]
                    \ UNION {TIER_FEATURES[TierOrder[j]] : j \in 1..(k - 1)}

\* for tier in TIER_FEATURES: extend; stop after the user's tier (a tier that
\* is not a key never stops the loop)
AvailableFeatures(user_tier) ==
    LET idx == {i \in 1..Len(TierOrder) : TierOrder[i] = user_tier}
        stop == IF idx = {} THEN Len(TierOrder) ELSE CHOOSE i \in idx : TRUE
    IN  UNION {TIER_FEATURES[TierOrder[i]] : i \in 1..stop}

check_feature_access(subs, u, f) ==
    f \in AvailableFeatures(get_user_tier(subs, u))

\* for features in TIER_FEATURES.values(): if feature_name in features
FeatureExists(f) == \E i \in 1..Len(TierOrder) : f \in TIER_FEATURES[TierOrder[i]]

\* Variant: the last tier that lists the feature.
RequiredTier_Highest(f) ==
    IF FeatureExists(f)
    THEN TierOrder[CHOOSE i \in 1..Len(TierOrder) :
            /\ f \in TIER_FEATURES[TierOrder[i]]
            /\ \A j \in (i + 1)..Len(TierOrder) : f \notin TIER_FEATURES[TierOrder[j]]]
    ELSE Unset

\* for tier, features in TIER_FEATURES.items(): first tier that lists it
RequiredTier(f) ==
    IF FeatureExists(f)
    THEN TierOrder[CHOOSE i \in 1..Len(TierOrder) :
            /\ f \in TIER_FEATURES[TierOrder[i]]
            /\ \A j \in 1..(i - 1) : f \notin TIER_FEATURES[TierOrder[j]]]
    ELSE Unset

\* User.subscription_tier: the related row's tier field, whatever its status
User_subscription_tier(subs, u) ==
    LET subscription == get_user_subscription(subs, u)
    IN  IF subscription = <<>> THEN "free" ELSE subscription[1].subscription_tier

\* User.is_tier_or_higher
is_tier_or_higher(subs, u, tier) ==
    tier_levels(User_subscription_tier(subs, u)) >= tier_levels(tier)

AccessResponse(op, u, f, status, allowed, tier, required_tier) ==
    [Response(op, u, f, 0, status, allowed, 0, Metadata(tier, "", 0, FALSE), <<>>)
        EXCEPT !.required_tier = required_tier]

\* SubscriptionService.get_user_tier called on its own
GetUserTier(u) ==
    /\ response' = AccessResponse("get_user_tier", u, "", HTTP_200_OK, TRUE,
                                  get_user_tier(user_subscriptions, u), Unset)
    /\ UNCHANGED <<user_subscriptions, feature_usage, subscription_events,
                   today, requests>>

\* Depends(verify_subscription_tier(required_tier))
VerifySubscriptionTier(u, required_tier) ==
    LET user_tier == get_user_tier(user_subscriptions, u)
        ok == is_tier_or_higher(user_subscriptions, u, required_tier)
    IN  /\ response' = AccessResponse("verify_subscription_tier", u, "",
                           IF ok THEN HTTP_200_OK ELSE HTTP_402_PAYMENT_REQUIRED,
                           ok, user_tier, required_tier)
        /\ UNCHANGED <<user_subscriptions, feature_usage, subscription_events,
                       today, requests>>

\* Depends(verify_feature_access(feature_name))
VerifyFeatureAccess(u, f) ==
    LET has_access == check_feature_access(user_subscriptions, u, f)
        required_tier == IF RequiredTier(f) = Unset THEN "premium"
                         ELSE RequiredTier(f)
    IN  /\ response' =
              IF has_access
              THEN AccessResponse("verify_feature_access", u, f, HTTP_200_OK,
                                  TRUE, get_user_tier(user_subscriptions, u), Unset)
              ELSE AccessResponse("verify_feature_access", u, f,
                                  HTTP_402_PAYMENT_REQUIRED, FALSE,
                                  get_user_tier(user_subscriptions, u),
                                  required_tier)
        /\ UNCHANGED <<user_subscriptions, feature_usage, subscription_events,
                       today, requests>>

\* GET /feature-access/{feature_name}
FeatureAccessRoute(u, f) ==
    LET has_access == check_feature_access(user_subscriptions, u, f)
    IN  /\ response' =
              IF ~FeatureExists(f)
              THEN AccessResponse("feature_access", u, f, HTTP_404_NOT_FOUND,
                                  FALSE, Unset, Unset)
              ELSE AccessResponse("feature_access", u, f, HTTP_200_OK, has_access,
                                  get_user_tier(user_subscriptions, u),
                                  IF RequiredTier(f) = Unset THEN "unknown"
                                  ELSE RequiredTier(f))
        /\ UNCHANGED <<user_subscriptions, feature_usage, subscription_events,
                       today, requests>>

(***************************************************************************)
(* POST /upgrade.                                                          *)
(***************************************************************************)
\* Variant: only the tier name is validated, not the upgrade path.
UpgradeRejected_AnyPath(current_tier, tier) == tier \notin {"premium", "pro"}

\* The three checks that raise 400
UpgradeRejected(current_tier, tier) ==
    \/ tier \notin {"premium", "pro"}
    \/ current_tier = "premium" /\ tier = "premium"
    \/ current_tier = "pro"

UpgradeResponse(u, tier, status, subs) ==
    [LifecycleResponse("upgrade_subscription", u, status, subs)
        EXCEPT !.required_tier = tier]

\* The log may hold one more event than the lifecycle calls alone leave, so
\* that an upgrade can follow a create and a cancel.
MaxUpgradeEvents == MaxEvents + 1

\* upgrade_subscription: validate, then update_subscription(tier) on the
\* user's row, or create_subscription(tier) when there is none
UpgradeSubscription(u, tier) ==
    LET i == SubscriptionIndex(user_subscriptions, u)
        current_tier == User_subscription_tier(user_subscriptions, u)
    IN  IF UpgradeRejected(current_tier, tier)
        THEN /\ response' = UpgradeResponse(u, tier, HTTP_400_BAD_REQUEST,
                                            user_subscriptions)
             /\ UNCHANGED <<user_subscriptions, feature_usage, subscription_events,
                            today, requests>>
        ELSE /\ Len(subscription_events) < MaxUpgradeEvents
             /\ user_subscriptions' =
                    IF i # 0
                    THEN [user_subscriptions EXCEPT
                             ![i] = ApplyUpdate(@, tier, Unset, Unset)]
                    ELSE Append(user_subscriptions,
                                SubscriptionRow(u, tier, "active", FALSE))
             /\ subscription_events' =
                    IF i = 0
                    THEN record_subscription_event(subscription_events, u,
                             "subscription_created", Unset, tier)
                    ELSE IF user_subscriptions[i].subscription_tier # tier
                    THEN record_subscription_event(subscription_events, u,
                             "subscription_changed",
                             user_subscriptions[i].subscription_tier, tier)
                    ELSE subscription_events
             /\ response' = UpgradeResponse(u, tier, HTTP_200_OK,
                                            user_subscriptions')
             /\ UNCHANGED <<feature_usage, today, requests>>

(***************************************************************************)
(* Store failures.  Neither service catches an exception, so a database    *)
(* call that fails ends the handler with that exception.                   *)
(***************************************************************************)
\* The database calls of one increment_and_check, in program order: the
\* subscription query of check_rate_limit, the queries of check_usage_limit,
\* then the query, the commit and the refresh of increment_usage.
StoreCalls == {"get_user_tier", "check_usage_limit", "increment_usage",
               "commit", "refresh"}

\* The call ended with the exception of store call fail_at.
Raised(fail_at, usage, writes) ==
    [raised |-> TRUE, failed |-> fail_at, allowed |-> FALSE, remaining |-> 0,
     metadata |-> NoMeta, usage |-> usage, writes |-> writes]

Returned(r, usage, writes) ==
    [raised |-> FALSE, failed |-> Unset, allowed |-> r.allowed,
     remaining |-> r.remaining, metadata |-> r.metadata, usage |-> usage,
     writes |-> writes]

\* Whether check_rate_limit gets as far as store call fail_at.
CheckReaches(subs, u, f, fail_at) ==
    \/ fail_at = "get_user_tier"
    \/ fail_at = "check_usage_limit" /\ HasLimit(get_user_tier(subs, u), f)

\* Variant: the exception is caught and the call answers allowed.
check_rate_limit_FailOpen(subs, usage, d, u, f, fail_at) ==
    IF CheckReaches(subs, u, f, fail_at)
    THEN [Raised(fail_at, usage, <<>>) EXCEPT !.raised = FALSE, !.allowed = TRUE,
                                               !.remaining = UNLIMITED]
    ELSE Returned(check_rate_limit(subs, usage, d, u, f), usage, <<>>)

\* check_rate_limit while store call fail_at fails (Unset: none does)
check_rate_limit_failing(subs, usage, d, u, f, fail_at) ==
    IF CheckReaches(subs, u, f, fail_at)
    THEN Raised(fail_at, usage, <<>>)
    ELSE Returned(check_rate_limit(subs, usage, d, u, f), usage, <<>>)

\* increment_and_check while store call fail_at fails: a failure before the
\* commit leaves the table as it was, a failed refresh comes after the commit
increment_and_check_failing(subs, usage, d, u, f, amount, fail_at) ==
    LET chk == check_rate_limit_failing(subs, usage, d, u, f, fail_at)
        r == increment_and_check(subs, usage, d, u, f, amount)
    IN  IF chk.raised \/ chk.failed # Unset THEN chk
        ELSE IF chk.allowed /\ fail_at \in {"increment_usage", "commit"}
        THEN Raised(fail_at, usage, r.writes)
        ELSE IF chk.allowed /\ fail_at = "refresh"
        THEN Raised(fail_at, r.usage, r.writes)
        ELSE Returned(r, r.usage, r.writes)

\* The handler's outcome: the exception leaves as a 500, else what it returned.
OutageResponse(op, u, f, amount, status, r) ==
    [Response(op, u, f, amount, IF r.raised THEN HTTP_500_INTERNAL_SERVER_ERROR
                                ELSE status,
              r.allowed, r.remaining, r.metadata, r.writes)
        EXCEPT !.failed = r.failed]

CheckRateLimitFailing(u, f, fail_at) ==
    LET r == check_rate_limit_failing(user_subscriptions, feature_usage, today,
                                      u, f, fail_at)
    IN  /\ response' = OutageResponse("check_rate_limit", u, f, 0, HTTP_200_OK, r)
        /\ UNCHANGED <<user_subscriptions, feature_usage, subscription_events,
                       today, requests>>

IncrementAndCheckFailing(u, f, amount, fail_at) ==
    LET r == increment_and_check_failing(user_subscriptions, feature_usage,
                                         today, u, f, amount, fail_at)
    IN  /\ feature_usage' = r.usage
        /\ response' = OutageResponse("increment_and_check", u, f, amount,
                                      HTTP_200_OK, r)
        /\ UNCHANGED <<user_subscriptions, subscription_events, today, requests>>

VerifyUsageLimitFailing(u, f, fail_at) ==
    LET r == check_rate_limit_failing(user_subscriptions, feature_usage, today,
                                      u, f, fail_at)
    IN  /\ response' = OutageResponse("verify_usage_limit", u, f, 0,
                                      IF r.allowed THEN HTTP_200_OK
                                      ELSE HTTP_429_TOO_MANY_REQUESTS, r)
        /\ UNCHANGED <<user_subscriptions, feature_usage, subscription_events,
                       today, requests>>

TrackUsageFailing(u, f, amount, fail_at) ==
    LET r == increment_and_check_failing(user_subscriptions, feature_usage,
                                         today, u, f, amount, fail_at)
    IN  /\ feature_usage' = r.usage
        /\ response' = OutageResponse("track_usage", u, f, amount, HTTP_200_OK, r)
        /\ UNCHANGED <<user_subscriptions, subscription_events, today, requests>>

\* SubscriptionService.get_feature_usage_summary: one entry per feature that
\* has a limit at the user's tier
get_feature_usage_summary(subs, usage, d, u) ==
    LET limits == LimitsOf(get_user_tier(subs, u))
    IN  [f \in DOMAIN limits |->
            [used_today |-> UsedToday(usage, u, f, d),
             daily_limit |-> limits[f],
             remaining |-> Max(0, limits[f] - UsedToday(usage, u, f, d))]]

\* SubscriptionService.get_subscription_summary
get_subscription_summary(subs, usage, d, u) ==
    LET subscription == get_user_subscription(subs, u)
    IN  [tier |-> IF subscription # <<>> THEN subscription[1].subscription_tier
                  ELSE "free",
         status |-> IF subscription # <<>> THEN subscription[1].status ELSE "none",
         is_active |-> IF subscription # <<>> THEN is_active(subscription[1])
                       ELSE FALSE,
         cancel_at_period_end |->
             IF subscription # <<>> THEN subscription[1].cancel_at_period_end
             ELSE FALSE,
         feature_usage |-> get_feature_usage_summary(subs, usage, d, u)]

\* GET /summary
GetSubscriptionSummary(u) ==
    LET r == get_subscription_summary(user_subscriptions, feature_usage, today, u)
    IN  /\ response' =
              [Response("get_subscription_summary", u, "", 0, HTTP_200_OK, FALSE,
                        0, Metadata(r.tier, "", 0, FALSE), <<>>)
                  EXCEPT !.subscription_status = r.status,
                         !.is_active = r.is_active,
                         !.usage_summary = r.feature_usage]
        /\ UNCHANGED <<user_subscriptions, feature_usage, subscription_events,
                       today, requests>>

(***************************************************************************)
(* The reset instant.  Time is in whole seconds since the start of day 0.  *)
(***************************************************************************)
SECONDS_PER_DAY == 24 * 60 * 60

\* .replace(hour=0, minute=0, second=0, microsecond=0)
Midnight(t) == (t \div SECONDS_PER_DAY) * SECONDS_PER_DAY

\* Variant: a day ahead, not moved back to the start of that day.
Tomorrow_NotTruncated(now) == now + SECONDS_PER_DAY

\* tomorrow = (now + timedelta(days=1)).replace(...)
Tomorrow(now) == Midnight(now + SECONDS_PER_DAY)

\* int((tomorrow - now).total_seconds())
ResetSeconds(now) == Tomorrow(now) - now

\* RateLimitService.get_reset_time
get_reset_time(now) == Tomorrow(now)

\* check_rate_limit called at second s of today
CheckRateLimitAt(u, f, s) ==
    LET r == check_rate_limit(user_subscriptions, feature_usage, today, u, f)
        now == today * SECONDS_PER_DAY + s
        tracked == r.metadata.limit_type = "daily"
    IN  /\ response' =
              [Response("check_rate_limit", u, f, 0, HTTP_200_OK, r.allowed,
                        r.remaining, r.metadata, <<>>)
                  EXCEPT !.now = now,
                         !.reset_seconds = IF tracked THEN ResetSeconds(now) ELSE 0,
                         !.reset_time = IF tracked THEN Tomorrow(now) ELSE 0]
        /\ UNCHANGED <<user_subscriptions, feature_usage, subscription_events,
                       today, requests>>

\* get_reset_time called at second s of today
GetResetTime(s) ==
    LET now == today * SECONDS_PER_DAY + s
    IN  /\ response' =
              [Response("get_reset_time", "", "", 0, HTTP_200_OK, FALSE, 0,
                        NoMeta, <<>>)
                  EXCEPT !.now = now, !.reset_time = get_reset_time(now)]
        /\ UNCHANGED <<user_subscriptions, feature_usage, subscription_events,
                       today, requests>>

(***************************************************************************)
(* Spec: requests handled one at a time, each handler one step.  One user  *)
(* and the feature whose limit is 0 at free and 5 at premium.              *)
(***************************************************************************)
SpecUsers == {"u1"}
SpecFeatures == {"insight_expansion"}
SpecTiers == {"premium"}

\* Counters stay within the range the model explores.
Floored == \A k \in DOMAIN feature_usage : feature_usage[k] >= MinAmount

Init ==
    /\ user_subscriptions = <<>>
    /\ feature_usage = <<>>
    /\ subscription_events = <<>>
    /\ today = 0
    /\ response = NoResponse
    /\ requests = [p \in Procs |-> Idle]

Next ==
    \/ \E u \in SpecUsers, f \in SpecFeatures : CheckRateLimit(u, f)
    \/ \E u \in SpecUsers, f \in SpecFeatures, a \in Amounts :
          IncrementAndCheck(u, f, a) /\ Floored'
    \/ \E u \in SpecUsers, f \in SpecFeatures : VerifyUsageLimit(u, f)
    \/ \E u \in SpecUsers, f \in SpecFeatures, a \in Amounts :
          TrackUsage(u, f, a) /\ Floored'
    \/ \E u \in SpecUsers, f \in SpecFeatures : UsageLimitsRoute(u, f)
    \/ \E u \in SpecUsers, t \in SpecTiers : CreateSubscription(u, t, "active")
    \/ \E u \in SpecUsers, t \in SpecTiers \cup {"free"} :
          \E s \in {Unset, "past_due"} : UpdateSubscription(u, t, s, Unset)
    \/ \E u \in SpecUsers, immediate \in BOOLEAN : CancelSubscription(u, immediate)
    \/ Tick

Spec == Init /\ [][Next]_vars

(***************************************************************************)
(* Properties of the sequential behaviour.                                 *)
(***************************************************************************)
IncrementOps == {"increment_and_check", "track_usage"}
ReadOps == {"check_rate_limit", "verify_usage_limit", "usage_limits"}

\* The limit that applies to (u, f) in the current state; only used where
\* the feature is tracked at the user's tier.
LimitNow(u, f) == LimitsOf(get_user_tier(user_subscriptions, u))[f]
TrackedNow(u, f) == HasLimit(get_user_tier(user_subscriptions, u), f)
CountNow(u, f) == UsedToday(feature_usage, u, f, today)

\* C1: a call of increment_and_check with amount a >= 1 on a tracked feature
\* whose counter c for today is at most the tier's limit L leaves the counter
\* at min(c + a, L), so never above L, and reports remaining = L - min(c + a, L).
C1_CappedIncrement ==
    [][\A u \in SpecUsers, f \in SpecFeatures :
          ( /\ response'.op = "increment_and_check"
            /\ response'.user = u /\ response'.feature = f
            /\ response'.amount >= 1
            /\ TrackedNow(u, f)
            /\ CountNow(u, f) <= LimitNow(u, f) )
          => LET L == LimitNow(u, f)
                 target == Min(CountNow(u, f) + response'.amount, L)
             IN  /\ UsedToday(feature_usage', u, f, today) = target
                 /\ UsedToday(feature_usage', u, f, today) <= L
                 /\ response'.remaining = L - target]_vars

\* C1 witness: a request for 2 was cut to 1 and the counter stands at the limit.
C1_Witness ==
    /\ response.op = "increment_and_check"
    /\ response.amount = 2
    /\ response.writes = <<1>>
    /\ response.remaining = 0
    /\ response.limit > 0
    /\ UsedToday(feature_usage, response.user, response.feature, today)
          = response.limit

\* C5 (as claimed): a feature whose limit at the user's tier is 0 is always
\* denied by check_rate_limit and increment_and_check with remaining 0, and
\* nothing is written.
C5_LimitZeroDenied ==
    ( /\ response.op \in {"check_rate_limit", "increment_and_check"}
      /\ response.limit_type = "daily"
      /\ response.limit = 0 )
    => /\ ~response.allowed
       /\ response.remaining = 0
       /\ response.writes = <<>>

\* C6: when the day advances, every tracked (user, feature) reads a count of 0
\* and the full limit as remaining, whatever value the previous day's counter
\* reached, and keeps reading so while no row for the new day exists.
C6_DayBoundaryReset ==
    [][\A u \in SpecUsers, f \in SpecFeatures :
          LET tier == get_user_tier(user_subscriptions', u)
              chk == check_rate_limit(user_subscriptions', feature_usage',
                                      today', u, f)
          IN  /\ ( today' = today + 1 /\ HasLimit(tier, f) )
                 => /\ UsedToday(feature_usage', u, f, today') = 0
                    /\ chk.remaining = LimitsOf(tier)[f]
                    /\ feature_usage' = feature_usage
              /\ ( /\ response'.op \in ReadOps
                   /\ response'.user = u /\ response'.feature = f
                   /\ response'.limit_type = "daily"
                   /\ UsageKey(u, f, today') \notin DOMAIN feature_usage' )
                 => response'.remaining = response'.limit]_vars

\* C6 witness: yesterday's counter holds V > 0, today has no row yet, and a
\* check reads the full limit.
C6_Witness ==
    /\ today = 1
    /\ response.op = "check_rate_limit"
    /\ response.limit > 0
    /\ response.remaining = response.limit
    /\ UsageKey(response.user, response.feature, 0) \in DOMAIN feature_usage
    /\ feature_usage[UsageKey(response.user, response.feature, 0)] > 0
    /\ UsageKey(response.user, response.feature, 1) \notin DOMAIN feature_usage

\* C7: a check_rate_limit call leaves unchanged what any later check_rate_limit
\* returns, so a check that directly follows a check for the same user and
\* feature returns the same remaining.
C7_ReadsIdempotent ==
    [][ response'.op = "check_rate_limit"
        => /\ \A u \in SpecUsers, f \in SpecFeatures :
                check_rate_limit(user_subscriptions', feature_usage', today', u, f)
                    = check_rate_limit(user_subscriptions, feature_usage, today, u, f)
           /\ ( /\ response.op = "check_rate_limit"
                /\ response.user = response'.user
                /\ response.feature = response'.feature )
              => response'.remaining = response.remaining ]_vars

\* C7 witness: a check on a partly used tracked counter.
C7_Witness ==
    /\ response.op = "check_rate_limit"
    /\ response.limit_type = "daily"
    /\ response.remaining > 0
    /\ response.remaining < response.limit

\* C8: check_rate_limit, the verify_usage_limit gate and the usage-limits route
\* change no usage row, no subscription row and no event, and create no row.
C8_CheckOnlyNoWrite ==
    [][ response'.op \in ReadOps
        => /\ feature_usage' = feature_usage
           /\ user_subscriptions' = user_subscriptions
           /\ subscription_events' = subscription_events
           /\ response'.writes = <<>> ]_vars

\* C8 witness: the gate ran for a key that has no row, and there is still none.
C8_Witness ==
    /\ response.op = "verify_usage_limit"
    /\ response.limit_type = "daily"
    /\ UsageKey(response.user, response.feature, today) \notin DOMAIN feature_usage
    /\ user_subscriptions # <<>>

\* C9: when today's count is at or above the limit of the user's tier,
\* increment_and_check writes nothing (the row is neither changed nor created)
\* and returns allowed = false, remaining = 0.
C9_DeniedNoWrite ==
    [][\A u \in SpecUsers, f \in SpecFeatures :
          ( /\ response'.op = "increment_and_check"
            /\ response'.user = u /\ response'.feature = f
            /\ TrackedNow(u, f)
            /\ CountNow(u, f) >= LimitNow(u, f) )
          => /\ feature_usage' = feature_usage
             /\ response'.writes = <<>>
             /\ ~response'.allowed
             /\ response'.remaining = 0]_vars

\* C9 witness: a downgrade left the counter above the limit and a call was
\* denied.
C9_Witness ==
    /\ response.op = "increment_and_check"
    /\ ~response.allowed
    /\ response.amount >= 1
    /\ response.limit_type = "daily"
    /\ UsedToday(feature_usage, response.user, response.feature, today)
          > response.limit

\* C10 (as claimed): increment_and_check and track_usage reject an amount <= 0:
\* the call is not answered as an allowed one and makes no store call.
C10_NonPositiveRejected ==
    ( response.op \in IncrementOps /\ response.amount <= 0 )
    => /\ ~(response.status = HTTP_200_OK /\ response.allowed)
       /\ response.writes = <<>>

\* C19 (as claimed): whenever the verify_usage_limit gate or the track_usage
\* gate finds allowed = false for a tracked feature, the request is refused
\* with 429.
C19_QuotaExhaustionSurfaced ==
    ( /\ response.op \in {"verify_usage_limit", "track_usage"}
      /\ response.limit_type = "daily"
      /\ ~response.allowed )
    => response.status = HTTP_429_TOO_MANY_REQUESTS

\* The tier field stored for the user (None when there is no row).
StoredTier(subs, u) ==
    IF get_user_subscription(subs, u) = <<>> THEN Unset
    ELSE get_user_subscription(subs, u)[1].subscription_tier

LifecycleOps == {"create_subscription", "update_subscription",
                 "cancel_subscription"}

\* C20 (as claimed): every successful create, update or cancel that changes
\* the user's stored tier appends one SubscriptionEvent whose previous_tier is
\* the tier stored before the operation and whose new_tier is the tier stored
\* after it.
C20_TierChangeRecorded ==
    [][\A u \in SpecUsers :
          ( /\ response'.op \in LifecycleOps
            /\ response'.user = u
            /\ response'.status = HTTP_200_OK
            /\ StoredTier(user_subscriptions', u) # StoredTier(user_subscriptions, u) )
          => /\ Len(subscription_events') = Len(subscription_events) + 1
             /\ SubSeq(subscription_events', 1, Len(subscription_events))
                   = subscription_events
             /\ subscription_events'[Len(subscription_events')].previous_tier
                   = StoredTier(user_subscriptions, u)
             /\ subscription_events'[Len(subscription_events')].new_tier
                   = StoredTier(user_subscriptions', u)]_vars

\* C21: the SubscriptionEvent log is append-only: in every step of create,
\* update, cancel, check and track operations the log before the step is a
\* prefix of the log after it, so every event written stays, unchanged.
C21_EventLogAppendOnly ==
    [][ /\ Len(subscription_events') >= Len(subscription_events)
        /\ SubSeq(subscription_events', 1, Len(subscription_events))
              = subscription_events ]_vars

\* C21 witness: a cancellation was logged after the creation event, which is
\* still the first entry.
C21_Witness ==
    /\ response.op = "cancel_subscription"
    /\ response.status = HTTP_200_OK
    /\ Len(subscription_events) = 2
    /\ subscription_events[1].event_type = "subscription_created"
    /\ subscription_events[2].event_type = "subscription_canceled_immediate"

\* C23 (as claimed): the stored counter of a (user, feature, day) key is
\* never negative and never decreases.
C23_CounterMonotone ==
    [][ /\ \A k \in DOMAIN feature_usage :
              k \in DOMAIN feature_usage' /\ feature_usage'[k] >= feature_usage[k]
        /\ \A k \in DOMAIN feature_usage' : feature_usage'[k] >= 0 ]_vars

(***************************************************************************)
(* ScenarioSpec: a user without a subscription row (tier free) uses        *)
(* ask_questions, limit 10, one use per call.                              *)
(***************************************************************************)
ScenarioUsers == {"u1"}
ScenarioFeatures == {"ask_questions"}

ScenarioNext ==
    \/ \E u \in ScenarioUsers, f \in ScenarioFeatures : CheckRateLimit(u, f)
    \/ \E u \in ScenarioUsers, f \in ScenarioFeatures : IncrementAndCheck(u, f, 1)
    \/ \E u \in ScenarioUsers, f \in ScenarioFeatures : TrackUsage(u, f, 1)
    \/ \E u \in ScenarioUsers, f \in ScenarioFeatures : UsageLimitsRoute(u, f)
    \/ Tick

ScenarioSpec == Init /\ [][ScenarioNext]_vars

\* C4: on a tracked feature with limit L > 0, a check on a fresh key reports
\* allowed with remaining L; an increment_and_check(amount = 1) made when c
\* uses are recorded today is allowed and reports remaining L - c - 1 while
\* c < L (the first L calls), and is denied with remaining 0 once c = L (the
\* (L+1)-th call), leaving the counter at L.
C4_QuotaScenario ==
    [][\A u \in ScenarioUsers, f \in ScenarioFeatures :
          LET L == LimitNow(u, f)
              c == CountNow(u, f)
          IN  /\ L = 10
              /\ c \in 0..L
              /\ ( /\ response'.op \in ReadOps
                   /\ UsageKey(u, f, today) \notin DOMAIN feature_usage )
                 => (response'.allowed /\ response'.remaining = L)
              /\ ( response'.op \in IncrementOps /\ c < L )
                 => /\ response'.allowed
                    /\ response'.remaining = L - c - 1
                    /\ UsedToday(feature_usage', u, f, today) = c + 1
              /\ ( response'.op \in IncrementOps /\ c >= L )
                 => /\ ~response'.allowed
                    /\ response'.remaining = 0
                    /\ feature_usage' = feature_usage]_vars

\* C4 witness: the 11th call of the day was denied with the counter at 10.
C4_Witness ==
    /\ response.op = "track_usage"
    /\ response.tier = "free"
    /\ response.feature = "ask_questions"
    /\ ~response.allowed
    /\ response.remaining = 0
    /\ response.limit = 10
    /\ UsedToday(feature_usage, response.user, response.feature, today) = 10

(***************************************************************************)
(* ConcSpec: requests handled concurrently, one handler per request, each  *)
(* with its own database session.  A handler's steps are its statements    *)
(* that reach the database; what it has read lives in its locals.          *)
(***************************************************************************)
ConcUsers == {"u1"}
\* Limits at free: quest_daily 1, concept_tagging 3.
ConcFeatures == {"quest_daily", "concept_tagging"}

\* A request arrives: increment_and_check, or increment_usage called directly.
StartIncrementAndCheck(p, u, f, amount) ==
    /\ requests[p].pc = "idle"
    /\ requests' = [requests EXCEPT
           ![p] = Request("check_rate_limit", "increment_and_check", u, f, amount)]
    /\ UNCHANGED <<user_subscriptions, feature_usage, subscription_events,
                   today, response>>

StartIncrementUsage(p, u, f, amount) ==
    /\ requests[p].pc = "idle"
    /\ requests' = [requests EXCEPT
           ![p] = [Request("increment_usage", "increment_usage", u, f, amount)
                      EXCEPT !.increment_amount = amount]]
    /\ UNCHANGED <<user_subscriptions, feature_usage, subscription_events,
                   today, response>>

\* What the caller does with the outcome of check_rate_limit:
\* increment_and_check goes on to increment_usage with the capped amount or
\* returns the denial, a plain check_rate_limit returns.
AfterCheck(req, allowed, remaining) ==
    IF allowed /\ req.op = "increment_and_check"
    THEN [req EXCEPT !.pc = "increment_usage", !.allowed = TRUE,
                     !.remaining = remaining,
                     !.increment_amount = IncrementAmount(req.amount, remaining)]
    ELSE [req EXCEPT !.pc = "done", !.allowed = allowed, !.remaining = remaining]

\* The subscription table as the request's session reads it: a row the
\* session has loaded is returned as loaded, otherwise the query's result.
SessionSubscriptions(req) ==
    IF req.subscription # <<>> THEN req.subscription ELSE user_subscriptions

\* The usage table as the request's session reads the request's key.
SessionUsage(req, k) ==
    IF req.row # <<>> THEN (k :> req.row[1]) @@ feature_usage ELSE feature_usage

\* check_rate_limit: the tier lookup, and the untracked short cut
CrlGetTier(p) ==
    LET req == requests[p]
        user_tier == get_user_tier(user_subscriptions, req.user)
        loaded == [req EXCEPT
                      !.user_tier = user_tier,
                      !.subscription =
                          get_user_subscription(user_subscriptions, req.user),
                      !.limit = IF HasLimit(user_tier, req.feature)
                                THEN LimitsOf(user_tier)[req.feature] ELSE 0]
    IN  /\ req.pc = "check_rate_limit"
        /\ requests' = [requests EXCEPT ![p] =
               IF ~HasLimit(user_tier, req.feature)
               THEN AfterCheck(loaded, TRUE, UNLIMITED)
               ELSE [loaded EXCEPT !.pc = "check_usage_limit"]]
        /\ UNCHANGED <<user_subscriptions, feature_usage, subscription_events,
                       today, response>>

\* check_usage_limit: its own tier lookup and the query of today's row
CulQuery(p) ==
    LET req == requests[p]
        k == UsageKey(req.user, req.feature, today)
        subs == SessionSubscriptions(req)
        chk == check_usage_limit(subs, feature_usage, today,
                                 req.user, req.feature)
        queried == HasLimit(get_user_tier(subs, req.user), req.feature)
    IN  /\ req.pc = "check_usage_limit"
        /\ requests' = [requests EXCEPT ![p] =
               [AfterCheck(req, chk.allowed, chk.remaining) EXCEPT
                   !.subscription = get_user_subscription(subs, req.user),
                   !.check_date = today,
                   !.row = IF queried /\ k \in DOMAIN feature_usage
                           THEN <<feature_usage[k]>> ELSE <<>>]]
        /\ UNCHANGED <<user_subscriptions, feature_usage, subscription_events,
                       today, response>>

\* increment_usage: today, and the query for the row
IuQuery(p) ==
    LET req == requests[p]
        k == UsageKey(req.user, req.feature, today)
        usage == SessionUsage(req, k)
    IN  /\ req.pc = "increment_usage"
        /\ requests' = [requests EXCEPT ![p] =
               [req EXCEPT !.pc = "commit", !.usage_date = today,
                           !.row = IF k \in DOMAIN usage
                                   THEN <<usage[k]>> ELSE <<>>]]
        /\ UNCHANGED <<user_subscriptions, feature_usage, subscription_events,
                       today, response>>

\* increment_usage: the new row or the changed count reaches the table at
\* commit.  An INSERT of a key that exists by now violates the unique index
\* and the request fails; an UPDATE stores the count computed from the row as
\* it was read.
IuCommit(p) ==
    LET req == requests[p]
        k == UsageKey(req.user, req.feature, req.usage_date)
        new_count == IF req.row = <<>> THEN req.increment_amount
                     ELSE req.row[1] + req.increment_amount
    IN  /\ req.pc = "commit"
        /\ IF req.row = <<>> /\ k \in DOMAIN feature_usage
           THEN /\ requests' = [requests EXCEPT ![p] = [req EXCEPT !.pc = "failed"]]
                /\ UNCHANGED feature_usage
           ELSE /\ feature_usage' =
                      IF req.row = <<>> THEN feature_usage @@ (k :> new_count)
                      ELSE [feature_usage EXCEPT ![k] = new_count]
                /\ requests' = [requests EXCEPT ![p] =
                      [req EXCEPT !.pc = "done", !.result = new_count,
                                  !.remaining =
                                      IF req.op = "increment_and_check"
                                      THEN RemainingAfter(req.remaining,
                                                          req.increment_amount)
                                      ELSE req.remaining]]
        /\ UNCHANGED <<user_subscriptions, subscription_events, today, response>>

ConcNext ==
    \/ \E p \in Procs, u \in ConcUsers, f \in ConcFeatures, a \in 1..MaxAmount :
          StartIncrementAndCheck(p, u, f, a)
    \/ \E p \in Procs, u \in ConcUsers, f \in ConcFeatures, a \in 1..MaxAmount :
          StartIncrementUsage(p, u, f, a)
    \/ \E p \in Procs : CrlGetTier(p)
    \/ \E p \in Procs : CulQuery(p)
    \/ \E p \in Procs : IuQuery(p)
    \/ \E p \in Procs : IuCommit(p)

ConcSpec == Init /\ [][ConcNext]_vars

RECURSIVE SumAmounts(_)
SumAmounts(ps) ==
    IF ps = {} THEN 0
    ELSE LET p == CHOOSE q \in ps : TRUE
         IN  requests[p].amount + SumAmounts(ps \ {p})

AllFinished == \A p \in Procs : requests[p].pc \in {"done", "failed"}

\* C2 (as claimed): K concurrent increment_and_check(amount = 1) calls on a
\* fresh key with limit L < K end with exactly L calls allowed, K - L denied
\* and the stored counter at L.
C2_ExactlyLimitAllowed ==
    \A u \in ConcUsers, f \in ConcFeatures :
        ( /\ AllFinished
          /\ \A p \in Procs : /\ requests[p].op = "increment_and_check"
                              /\ requests[p].user = u
                              /\ requests[p].feature = f
                              /\ requests[p].amount = 1
          /\ NumProcs > LimitNow(u, f) )
        => /\ Cardinality({p \in Procs : requests[p].pc = "done"
                                         /\ requests[p].allowed})
                 = LimitNow(u, f)
           /\ Cardinality({p \in Procs : requests[p].pc = "done"
                                         /\ ~requests[p].allowed})
                 = NumProcs - LimitNow(u, f)
           /\ CountNow(u, f) = LimitNow(u, f)

\* C3 (as claimed): concurrent increment_usage calls on one key are atomic:
\* once all have finished, the stored counter is its initial value (0, no
\* row) plus the sum of their amounts.
C3_AtomicIncrement ==
    \A u \in ConcUsers, f \in ConcFeatures :
        ( /\ AllFinished
          /\ \A p \in Procs : /\ requests[p].op = "increment_usage"
                              /\ requests[p].user = u
                              /\ requests[p].feature = f )
        => /\ \A p \in Procs : requests[p].pc = "done"
           /\ CountNow(u, f) = SumAmounts(Procs)

\* C25 (as claimed): increment_and_check decides and applies its increment
\* as one atomic operation on the key: while a call that was allowed has not
\* yet written, the stored count is still the count its decision was based on
\* (the limit minus the remaining it read).
C25_DecideAndApplyAtomic ==
    \A p \in Procs :
        ( /\ requests[p].op = "increment_and_check"
          /\ requests[p].pc \in {"increment_usage", "commit"}
          /\ TrackedNow(requests[p].user, requests[p].feature) )
        => CountNow(requests[p].user, requests[p].feature)
              = LimitNow(requests[p].user, requests[p].feature)
                   - requests[p].remaining

\* C26 (as claimed): the remaining an allowed increment_and_check returns is
\* max(0, limit - the count stored by this call's increment), also when other
\* increments on the key interleave with the call.
C26_RemainingFromStoredCount ==
    \A p \in Procs :
        ( /\ requests[p].op = "increment_and_check"
          /\ requests[p].pc = "done"
          /\ requests[p].allowed
          /\ TrackedNow(requests[p].user, requests[p].feature) )
        => requests[p].remaining
              = Max(0, LimitNow(requests[p].user, requests[p].feature)
                          - requests[p].result)

(***************************************************************************)
(* RolloverSpec: increment_and_check requests in flight while the calendar *)
(* day advances.                                                           *)
(***************************************************************************)
RolloverUsers == {"u1"}
\* Limit at free: 1.
RolloverFeatures == {"quest_daily"}

RolloverNext ==
    \/ \E p \in Procs, u \in RolloverUsers, f \in RolloverFeatures :
          StartIncrementAndCheck(p, u, f, 1)
    \/ \E p \in Procs : CrlGetTier(p)
    \/ \E p \in Procs : CulQuery(p)
    \/ \E p \in Procs : IuQuery(p)
    \/ \E p \in Procs : IuCommit(p)
    \/ Tick

RolloverSpec == Init /\ [][RolloverNext]_vars

\* C31 (as claimed): within one increment_and_check call the count is read
\* and the increment written under the same day key, also when the day rolls
\* over during the call, and no day's counter is pushed above the limit.
C31_SameDayKey ==
    /\ \A p \in Procs :
          ( /\ requests[p].op = "increment_and_check"
            /\ requests[p].pc \in {"commit", "done"}
            /\ HasLimit(requests[p].user_tier, requests[p].feature) )
          => requests[p].usage_date = requests[p].check_date
    /\ \A u \in RolloverUsers, f \in RolloverFeatures, d \in Days :
          UsedToday(feature_usage, u, f, d) <= LimitNow(u, f)

(***************************************************************************)
(* ConcSubSpec: create_subscription and check_rate_limit requests handled  *)
(* concurrently, each in its own session, while subscriptions are updated  *)
(* and canceled.                                                           *)
(***************************************************************************)
ConcSubUsers == {"u1"}
ConcSubFeatures == {"quest_daily"}
ConcSubTiers == {"premium"}

StartCreateSubscription(p, u, tier) ==
    /\ requests[p].pc = "idle"
    /\ requests' = [requests EXCEPT
           ![p] = [Request("create_query", "create_subscription", u, "", 0)
                      EXCEPT !.tier = tier]]
    /\ UNCHANGED <<user_subscriptions, feature_usage, subscription_events,
                   today, response>>

StartCheckRateLimit(p, u, f) ==
    /\ requests[p].pc = "idle"
    /\ requests' = [requests EXCEPT
           ![p] = Request("check_rate_limit", "check_rate_limit", u, f, 0)]
    /\ UNCHANGED <<user_subscriptions, feature_usage, subscription_events,
                   today, response>>

\* create_subscription: existing = get_user_subscription(...); 400 if found
CsQuery(p) ==
    LET req == requests[p]
    IN  /\ req.pc = "create_query"
        /\ requests' = [requests EXCEPT ![p] =
               IF get_user_subscription(user_subscriptions, req.user) # <<>>
               THEN [req EXCEPT !.pc = "rejected"]
               ELSE [req EXCEPT !.pc = "create_commit"]]
        /\ UNCHANGED <<user_subscriptions, feature_usage, subscription_events,
                       today, response>>

\* create_subscription: db.add(subscription); db.commit().  The index on
\* user_id is not unique, so the INSERT succeeds whatever rows exist.
CsCommit(p) ==
    LET req == requests[p]
    IN  /\ req.pc = "create_commit"
        /\ user_subscriptions' =
               Append(user_subscriptions,
                      SubscriptionRow(req.user, req.tier, "active", FALSE))
        /\ requests' = [requests EXCEPT ![p] = [req EXCEPT !.pc = "create_event"]]
        /\ UNCHANGED <<feature_usage, subscription_events, today, response>>

\* create_subscription: _record_subscription_event, then return
CsEvent(p) ==
    LET req == requests[p]
    IN  /\ req.pc = "create_event"
        /\ Len(subscription_events) < MaxEvents
        /\ subscription_events' =
               record_subscription_event(subscription_events, req.user,
                                         "subscription_created", Unset, req.tier)
        /\ requests' = [requests EXCEPT ![p] = [req EXCEPT !.pc = "done"]]
        /\ UNCHANGED <<user_subscriptions, feature_usage, today, response>>

ConcSubNext ==
    \/ \E p \in Procs, u \in ConcSubUsers, t \in ConcSubTiers :
          StartCreateSubscription(p, u, t)
    \/ \E p \in Procs, u \in ConcSubUsers, f \in ConcSubFeatures :
          StartCheckRateLimit(p, u, f)
    \/ \E p \in Procs : CsQuery(p)
    \/ \E p \in Procs : CsCommit(p)
    \/ \E p \in Procs : CsEvent(p)
    \/ \E p \in Procs : CrlGetTier(p)
    \/ \E p \in Procs : CulQuery(p)
    \/ \E u \in ConcSubUsers : UpdateSubscription(u, "pro", Unset, Unset)
    \/ \E u \in ConcSubUsers : CancelSubscription(u, TRUE)

ConcSubSpec == Init /\ [][ConcSubNext]_vars

\* C22 (as claimed): there is at most one subscription row per user in every
\* reachable state, also when create_subscription calls for the same user
\* run concurrently: one succeeds, the others are rejected.
C22_OneRowPerUser ==
    \A u \in ConcSubUsers :
        /\ Cardinality({i \in 1..Len(user_subscriptions) :
                           user_subscriptions[i].user_id = u}) <= 1
        /\ Cardinality({p \in Procs :
                           /\ requests[p].op = "create_subscription"
                           /\ requests[p].user = u
                           /\ requests[p].pc \in {"create_event", "done"}}) <= 1

\* C30 (as claimed): the result of check_rate_limit for a tracked feature is
\* consistent: 0 <= remaining <= metadata limit, both derived from the tier
\* in the metadata, whatever subscription changes interleave with the call.
C30_ConsistentResult ==
    \A p \in Procs :
        ( /\ requests[p].op = "check_rate_limit"
          /\ requests[p].pc = "done"
          /\ HasLimit(requests[p].user_tier, requests[p].feature) )
        => /\ requests[p].remaining >= 0
           /\ requests[p].remaining <= requests[p].limit
           /\ requests[p].limit
                 = LimitsOf(requests[p].user_tier)[requests[p].feature]

(***************************************************************************)
(* UpgradeSpec: the upgrade and the cancel route, on subscriptions in any  *)
(* tier and status.                                                        *)
(***************************************************************************)
UpgradeUsers == {"u1"}
\* The tier is a free query string.
UpgradeTiers == {"free", "premium", "pro", "enterprise"}

UpgradeNext ==
    \/ \E u \in UpgradeUsers, t \in UpgradeTiers : UpgradeSubscription(u, t)
    \/ \E u \in UpgradeUsers, immediate \in BOOLEAN : CancelSubscription(u, immediate)
    \/ \E u \in UpgradeUsers, t \in {"premium", "pro", "enterprise"} :
          CreateSubscription(u, t, "active")
    \/ \E u \in UpgradeUsers, s \in {"past_due", "active"} :
          UpdateSubscription(u, Unset, s, Unset)
    \/ \E u \in UpgradeUsers : GetUserTier(u)

UpgradeSpec == Init /\ [][UpgradeNext]_vars

\* C32 (as claimed): after the upgrade route returned success for tier T the
\* user's effective tier is T (get_user_tier returns T), in every state from
\* which the upgrade succeeds, also after an immediate cancellation.
C32_UpgradeTakesEffect ==
    ( /\ response.op = "upgrade_subscription"
      /\ response.status = HTTP_200_OK )
    => get_user_tier(user_subscriptions, response.user) = response.required_tier

AccessUsers == {"u1"}
AccessFeatures == {"basic_ask", "insight_expansion", "custom_pathways",
                   "no_such_feature"}
AccessLimitFeatures == {"quest_daily"}
AccessTiers == {"premium", "pro", "enterprise"}
CatalogTiers == {TierOrder[i] : i \in 1..Len(TierOrder)}

AccessNext ==
    \/ \E u \in AccessUsers : GetUserTier(u)
    \/ \E u \in AccessUsers : GetSubscriptionSummary(u)
    \/ \E u \in AccessUsers, t \in {"premium", "pro"} : VerifySubscriptionTier(u, t)
    \/ \E u \in AccessUsers, f \in AccessFeatures : VerifyFeatureAccess(u, f)
    \/ \E u \in AccessUsers, f \in AccessFeatures : FeatureAccessRoute(u, f)
    \/ \E u \in AccessUsers, f \in AccessLimitFeatures : CheckRateLimit(u, f)
    \/ \E u \in AccessUsers, f \in AccessLimitFeatures :
          /\ UsedToday(feature_usage, u, f, today) < MaxCount
          /\ IncrementAndCheck(u, f, 1)
    \/ \E u \in AccessUsers, t \in AccessTiers : CreateSubscription(u, t, "active")
    \/ \E u \in AccessUsers, t \in {Unset, "free", "premium", "pro"} :
          \E s \in {Unset, "past_due", "canceled", "active"} :
              UpdateSubscription(u, t, s, Unset)
    \/ \E u \in AccessUsers, immediate \in BOOLEAN : CancelSubscription(u, immediate)

AccessSpec == Init /\ [][AccessNext]_vars

\* The subscription row of the user the last response is about, if any.
ResponseRow == get_user_subscription(user_subscriptions, response.user)

FeatureAccessOps == {"verify_feature_access", "feature_access"}

\* C12: get_user_tier answers free when the user has no subscription row or
\* the row's status is not active, whatever the row's tier field says, and
\* answers the row's tier field as stored when the row is active.
C12_TierResolution ==
    response.op = "get_user_tier"
    => /\ ResponseRow = <<>> => response.tier = "free"
       /\ ( ResponseRow # <<>> /\ ResponseRow[1].status # "active" )
          => response.tier = "free"
       /\ ( ResponseRow # <<>> /\ ResponseRow[1].status = "active" )
          => response.tier = ResponseRow[1].subscription_tier

\* C12 witness: a past_due row whose tier field says pro resolves to free.
C12_Witness ==
    /\ response.op = "get_user_tier"
    /\ ResponseRow # <<>>
    /\ ResponseRow[1].status = "past_due"
    /\ ResponseRow[1].subscription_tier = "pro"
    /\ response.tier = "free"

\* C13 (as claimed): a user whose subscription is not active but whose tier
\* field is premium or pro is refused by verify_subscription_tier(premium/pro)
\* and by verify_feature_access for a feature above free, as a free user is.
C13_InactiveNeverElevated ==
    ( /\ ResponseRow # <<>>
      /\ ResponseRow[1].status # "active"
      /\ ResponseRow[1].subscription_tier \in {"premium", "pro"} )
    => /\ ( /\ response.op = "verify_subscription_tier"
            /\ response.required_tier \in {"premium", "pro"} )
          => (~response.allowed /\ response.status = HTTP_402_PAYMENT_REQUIRED)
       /\ ( /\ response.op = "verify_feature_access"
            /\ FeatureExists(response.feature)
            /\ response.feature \notin TIER_FEATURES["free"] )
          => (~response.allowed /\ response.status = HTTP_402_PAYMENT_REQUIRED)

\* C14 (as claimed): an active subscription whose tier field is not a catalog
\* tier is treated as free: the feature checks grant exactly the free feature
\* set and check_rate_limit applies the free limit.
C14_UnknownTierIsFree ==
    ( /\ ResponseRow # <<>>
      /\ ResponseRow[1].status = "active"
      /\ ResponseRow[1].subscription_tier \notin CatalogTiers )
    => /\ ( response.op \in FeatureAccessOps /\ FeatureExists(response.feature) )
          => (response.allowed <=> response.feature \in TIER_FEATURES["free"])
       /\ response.op = "check_rate_limit"
          => /\ response.limit_type = "daily"
             /\ response.limit = TIER_LIMITS["free"][response.feature]
             /\ response.remaining <= response.limit

\* C15: feature access is cumulative in tier rank: whatever check_feature_access
\* grants at a tier it grants at every higher tier, basic_ask is granted at
\* free, premium and pro, and a gate answers an active user at a catalog tier
\* with allowed for every feature some tier at or below theirs is granted.
C15_CumulativeAccess ==
    /\ \A i \in 1..Len(TierOrder), j \in 1..Len(TierOrder) :
          i < j => AvailableFeatures(TierOrder[i]) \subseteq AvailableFeatures(TierOrder[j])
    /\ \A t \in CatalogTiers : "basic_ask" \in AvailableFeatures(t)
    /\ ( /\ response.op \in FeatureAccessOps
         /\ response.tier \in CatalogTiers
         /\ \E t \in CatalogTiers :
               /\ tier_levels(t) <= tier_levels(response.tier)
               /\ response.feature \in TIER_FEATURES[t] )
       => response.allowed

\* C15 witness: the gate let an active pro user through for basic_ask.
C15_Witness ==
    /\ response.op = "verify_feature_access"
    /\ response.feature = "basic_ask"
    /\ response.tier = "pro"
    /\ response.allowed
    /\ ResponseRow # <<>> /\ ResponseRow[1].status = "active"

\* C17: for a feature some tier lists, the required tier the feature-access
\* route and the verify_feature_access gate report is the lowest-ranked tier
\* whose feature set contains it; a premium user asking for custom_pathways
\* gets allowed = false with required tier pro; and whenever such a feature is
\* locked the required tier ranks strictly above the user's effective tier.
C17_RequiredTierLowest ==
    ( /\ response.op \in FeatureAccessOps
      /\ FeatureExists(response.feature)
      /\ (response.op = "feature_access" \/ ~response.allowed) )
    => /\ response.required_tier \in CatalogTiers
       /\ response.feature \in TIER_FEATURES[response.required_tier]
       /\ \A t \in CatalogTiers :
             tier_levels(t) < tier_levels(response.required_tier)
             => response.feature \notin TIER_FEATURES[t]
       /\ ~response.allowed
          => tier_levels(response.required_tier) > tier_levels(response.tier)
       /\ (response.feature = "custom_pathways" /\ response.tier = "premium")
          => (~response.allowed /\ response.required_tier = "pro")

\* C17 witness: an active premium user was refused custom_pathways, pro required.
C17_Witness ==
    /\ response.op \in FeatureAccessOps
    /\ response.feature = "custom_pathways"
    /\ response.tier = "premium"
    /\ ~response.allowed
    /\ response.required_tier = "pro"

\* C18 (as claimed): a feature name no tier lists is answered as unknown (404,
\* no required tier) by the feature-access route and by the
\* verify_feature_access gate, never as locked (402 with a required tier).
C18_UnknownFeatureIs404 ==
    ( response.op \in FeatureAccessOps /\ ~FeatureExists(response.feature) )
    => /\ response.status = HTTP_404_NOT_FOUND
       /\ response.required_tier = Unset

\* C16: the daily limit of a feature is non-decreasing in tier rank wherever
\* two tiers both track it, so a step that raises the user's effective tier
\* and leaves the counter as it is never lowers the remaining that
\* check_rate_limit reports.
C16_LimitsMonotone ==
    [][ /\ \A i \in 1..Len(TierOrder), j \in 1..Len(TierOrder) :
              i < j =>
                \A f \in DOMAIN LimitsOf(TierOrder[i]) \cap DOMAIN LimitsOf(TierOrder[j]) :
                    LimitsOf(TierOrder[i])[f] <= LimitsOf(TierOrder[j])[f]
        /\ \A u \in AccessUsers, f \in AccessLimitFeatures :
              LET before == get_user_tier(user_subscriptions, u)
                  after == get_user_tier(user_subscriptions', u)
              IN  ( /\ before \in CatalogTiers /\ after \in CatalogTiers
                    /\ tier_levels(before) < tier_levels(after)
                    /\ UsedToday(feature_usage', u, f, today')
                          = UsedToday(feature_usage, u, f, today) )
                  => check_rate_limit(user_subscriptions', feature_usage',
                                      today', u, f).remaining
                        >= check_rate_limit(user_subscriptions, feature_usage,
                                            today, u, f).remaining ]_vars

\* C16 witness: an update raised premium to pro with 2 uses of quest_daily
\* recorded today (remaining 1 before, 3 after).
C16_Witness ==
    /\ response.op = "update_subscription"
    /\ response.status = HTTP_200_OK
    /\ response.tier = "pro"
    /\ subscription_events # <<>>
    /\ subscription_events[Len(subscription_events)].previous_tier = "premium"
    /\ subscription_events[Len(subscription_events)].new_tier = "pro"
    /\ UsedToday(feature_usage, response.user, "quest_daily", today) = 2
    /\ check_rate_limit(user_subscriptions, feature_usage, today,
                        response.user, "quest_daily").remaining = 3

\* C27 (as claimed): a user with no subscription row is treated as tier free,
\* status active by every operation that reports subscription state:
\* get_user_tier, the feature checks, check_rate_limit and
\* get_subscription_summary answer as for a recorded free/active row.
C27_NoRowIsFreeActive ==
    ResponseRow = <<>>
    => /\ response.op = "get_user_tier" => response.tier = "free"
       /\ ( response.op \in FeatureAccessOps /\ FeatureExists(response.feature) )
          => (response.allowed <=> response.feature \in TIER_FEATURES["free"])
       /\ response.op = "check_rate_limit"
          => /\ response.tier = "free"
             /\ response.limit = TIER_LIMITS["free"][response.feature]
       /\ response.op = "get_subscription_summary"
          => /\ response.tier = "free"
             /\ response.subscription_status = "active"
             /\ response.is_active

\* C34: a lifecycle call that is refused changes nothing: create_subscription
\* for a user who has a row answers 400, update_subscription and
\* cancel_subscription for a user without one answer 404, and the
\* subscription rows, the event log and the usage counters stay as they were.
C34_RejectedChangesNothing ==
    [][\A u \in AccessUsers :
          ( response'.op \in LifecycleOps /\ response'.user = u )
          => LET existing == get_user_subscription(user_subscriptions, u) # <<>>
                 refused ==
                     IF response'.op = "create_subscription" THEN existing
                     ELSE ~existing
             IN  /\ refused
                    => /\ response'.status =
                             IF response'.op = "create_subscription"
                             THEN HTTP_400_BAD_REQUEST ELSE HTTP_404_NOT_FOUND
                       /\ user_subscriptions' = user_subscriptions
                       /\ subscription_events' = subscription_events
                       /\ feature_usage' = feature_usage
                 /\ ~refused => response'.status = HTTP_200_OK]_vars

\* C34 witness: a second create was refused while a row, an event and a
\* usage counter exist.
C34_Witness ==
    /\ response.op = "create_subscription"
    /\ response.status = HTTP_400_BAD_REQUEST
    /\ ResponseRow # <<>>
    /\ subscription_events # <<>>
    /\ \E k \in DOMAIN feature_usage : feature_usage[k] > 0

\* C35: cancel_subscription(immediate=True) leaves the row with status
\* canceled and tier free and get_user_tier answering free;
\* cancel_subscription(immediate=False) only sets cancel_at_period_end, so
\* tier, status and the effective tier stay as they were; neither changes a
\* usage counter.  Which of the two ran is read off the event it logged.
C35_CancelEffect ==
    [][\A u \in AccessUsers :
          ( /\ response'.op = "cancel_subscription"
            /\ response'.user = u
            /\ response'.status = HTTP_200_OK )
          => LET old == get_user_subscription(user_subscriptions, u)[1]
                 new == get_user_subscription(user_subscriptions', u)[1]
                 event == subscription_events'[Len(subscription_events')]
             IN  /\ feature_usage' = feature_usage
                 /\ event.event_type = "subscription_canceled_immediate"
                    => /\ new = [old EXCEPT !.status = "canceled",
                                            !.subscription_tier = "free"]
                       /\ get_user_tier(user_subscriptions', u) = "free"
                 /\ event.event_type = "subscription_canceled_period_end"
                    => /\ new = [old EXCEPT !.cancel_at_period_end = TRUE]
                       /\ get_user_tier(user_subscriptions', u)
                             = get_user_tier(user_subscriptions, u)
                 /\ event.event_type \in {"subscription_canceled_immediate",
                                           "subscription_canceled_period_end"}]_vars

\* C35 witness: an immediate cancellation left the row canceled and free
\* while the user has a usage counter above 0.
C35_Witness ==
    /\ response.op = "cancel_subscription"
    /\ response.status = HTTP_200_OK
    /\ ResponseRow # <<>>
    /\ ResponseRow[1].status = "canceled"
    /\ ResponseRow[1].subscription_tier = "free"
    /\ subscription_events[Len(subscription_events)].event_type
          = "subscription_canceled_immediate"
    /\ \E k \in DOMAIN feature_usage : feature_usage[k] > 0

\* C37 (as claimed): the tier a subscription summary reports is the tier
\* whose limits appear as daily_limit in its feature_usage entries and is
\* what get_user_tier answers for the user, in every subscription state, and
\* each entry has remaining = max(0, daily_limit - used_today).
C37_SummarySelfConsistent ==
    response.op = "get_subscription_summary"
    => /\ response.tier = get_user_tier(user_subscriptions, response.user)
       /\ DOMAIN response.usage_summary = DOMAIN LimitsOf(response.tier)
       /\ \A f \in DOMAIN response.usage_summary :
             /\ f \in DOMAIN LimitsOf(response.tier)
                => response.usage_summary[f].daily_limit
                      = LimitsOf(response.tier)[f]
             /\ response.usage_summary[f].remaining
                   = Max(0, response.usage_summary[f].daily_limit
                               - response.usage_summary[f].used_today)

(***************************************************************************)
(* EventOutageSpec: the subscription lifecycle while the write of an event *)
(* can fail.  Each lifecycle call commits the subscription row, then       *)
(* _record_subscription_event adds the event and commits again; nothing    *)
(* catches an exception of the second commit.                              *)
(***************************************************************************)
EventOutageUsers == {"u1"}
EventOutageTiers == {"premium", "pro"}

EventFailedResponse(op, u, subs) ==
    [LifecycleResponse(op, u, HTTP_500_INTERNAL_SERVER_ERROR, subs)
        EXCEPT !.failed = "record_subscription_event"]

\* create_subscription whose event write fails: the row stays committed
CreateSubscriptionEventFails(u, tier, status) ==
    /\ get_user_subscription(user_subscriptions, u) = <<>>
    /\ user_subscriptions' =
           Append(user_subscriptions, SubscriptionRow(u, tier, status, FALSE))
    /\ response' = EventFailedResponse("create_subscription", u,
                                       user_subscriptions')
    /\ UNCHANGED <<feature_usage, subscription_events, today, requests>>

\* update_subscription that changes the tier and whose event write fails
UpdateSubscriptionEventFails(u, tier, status, cape) ==
    LET i == SubscriptionIndex(user_subscriptions, u)
    IN  /\ i # 0
        /\ tier # Unset
        /\ user_subscriptions[i].subscription_tier # tier
        /\ user_subscriptions' =
               [user_subscriptions EXCEPT ![i] = ApplyUpdate(@, tier, status, cape)]
        /\ response' = EventFailedResponse("update_subscription", u,
                                           user_subscriptions')
        /\ UNCHANGED <<feature_usage, subscription_events, today, requests>>

\* cancel_subscription whose event write fails
CancelSubscriptionEventFails(u, immediate) ==
    LET i == SubscriptionIndex(user_subscriptions, u)
    IN  /\ i # 0
        /\ user_subscriptions' =
               [user_subscriptions EXCEPT ![i] =
                   IF immediate
                   THEN [@ EXCEPT !.status = "canceled",
                                  !.subscription_tier = "free"]
                   ELSE [@ EXCEPT !.cancel_at_period_end = TRUE]]
        /\ response' = EventFailedResponse("cancel_subscription", u,
                                           user_subscriptions')
        /\ UNCHANGED <<feature_usage, subscription_events, today, requests>>

EventOutageNext ==
    \/ \E u \in EventOutageUsers, t \in EventOutageTiers :
          CreateSubscription(u, t, "active")
    \/ \E u \in EventOutageUsers, t \in EventOutageTiers \cup {Unset} :
          \E s \in {Unset, "past_due", "active"} : UpdateSubscription(u, t, s, Unset)
    \/ \E u \in EventOutageUsers, immediate \in BOOLEAN :
          CancelSubscription(u, immediate)
    \/ \E u \in EventOutageUsers, t \in EventOutageTiers :
          CreateSubscriptionEventFails(u, t, "active")
    \/ \E u \in EventOutageUsers, t \in EventOutageTiers :
          UpdateSubscriptionEventFails(u, t, Unset, Unset)
    \/ \E u \in EventOutageUsers, immediate \in BOOLEAN :
          CancelSubscriptionEventFails(u, immediate)

EventOutageSpec == Init /\ [][EventOutageNext]_vars

\* The events of user u, oldest first.
EventsOf(u) == SelectSeq(subscription_events, LAMBDA e : e.user_id = u)

\* C36 (as claimed): in every reachable state, also after a lifecycle call
\* whose event write failed after its subscription commit, the new_tier of a
\* user's most recent event is the tier stored in the user's row.
C36_LogMatchesRow ==
    \A u \in EventOutageUsers :
        EventsOf(u) # <<>>
        => /\ get_user_subscription(user_subscriptions, u) # <<>>
           /\ EventsOf(u)[Len(EventsOf(u))].new_tier
                 = get_user_subscription(user_subscriptions, u)[1].subscription_tier

(***************************************************************************)
(* KeysSpec: two users and two features, one of them without a limit       *)
(* entry, over the day of the first call and the next day.                 *)
(***************************************************************************)
\* (user, feature) pairs that are called; basic_ask has no entry in TIER_LIMITS.
KeyInputs == {<<"u1", "quest_daily">>, <<"u1", "basic_ask">>,
              <<"u2", "quest_daily">>}

\* Counters no limit caps are explored up to MaxAmount.
WithinCap(u, f, a) == UsedToday(feature_usage, u, f, today) + a <= MaxAmount

KeysNext ==
    \/ \E k \in KeyInputs : CheckRateLimit(k[1], k[2])
    \/ \E k \in KeyInputs, a \in 1..MaxAmount :
          WithinCap(k[1], k[2], a) /\ IncrementAndCheck(k[1], k[2], a)
    \/ \E k \in KeyInputs, a \in 1..MaxAmount :
          WithinCap(k[1], k[2], a) /\ IncrementUsage(k[1], k[2], a)
    \/ CreateSubscription("u2", "premium", "active")
    \/ today = 0 /\ Tick

KeysSpec == Init /\ [][KeysNext]_vars

\* C24 (as claimed): for a feature with no limit at the user's tier,
\* check_rate_limit and increment_and_check return allowed = true with the
\* sentinel remaining and limit_type none, and make no counter write.
C24_UntrackedNoStoreAccess ==
    ( /\ response.op \in {"check_rate_limit", "increment_and_check"}
      /\ ~HasLimit(get_user_tier(user_subscriptions, response.user),
                   response.feature) )
    => /\ response.allowed
       /\ response.limit_type = "none"
       /\ response.remaining = UNLIMITED
       /\ response.writes = <<>>

\* What an increment call on (u, f) leaves in the usage table.
UsageAfter(op, usage, u, f, a) ==
    IF op = "increment_usage"
    THEN increment_usage(usage, today, u, f, a)
    ELSE increment_and_check(user_subscriptions, usage, today, u, f, a).usage

\* C29: an increment_and_check or increment_usage call for (u, f) on day D
\* changes at most the counter row of (u, f, D): the row and the count of
\* every other user, feature and day, and all subscription rows and events,
\* are as before; and the call commutes with a call on any other key.
C29_PerKeyIsolation ==
    [][\A k \in KeyInputs :
          ( /\ response'.op \in {"increment_and_check", "increment_usage"}
            /\ response'.user = k[1] /\ response'.feature = k[2] )
          => /\ \A k2 \in KeyInputs, d \in Days :
                   <<k2[1], k2[2], d>> # <<k[1], k[2], today>>
                   => /\ UsedToday(feature_usage', k2[1], k2[2], d)
                            = UsedToday(feature_usage, k2[1], k2[2], d)
                      /\ (UsageKey(k2[1], k2[2], d) \in DOMAIN feature_usage')
                            <=> (UsageKey(k2[1], k2[2], d) \in DOMAIN feature_usage)
             /\ user_subscriptions' = user_subscriptions
             /\ subscription_events' = subscription_events
             /\ \A k2 \in KeyInputs \ {k}, a2 \in 1..MaxAmount,
                   op2 \in {"increment_and_check", "increment_usage"} :
                   UsageAfter(op2, feature_usage', k2[1], k2[2], a2)
                      = UsageAfter(response'.op,
                                   UsageAfter(op2, feature_usage, k2[1], k2[2], a2),
                                   k[1], k[2], response'.amount)]_vars

\* C29 witness: u1 used quest_daily today while u1's basic_ask row, u2's
\* quest_daily row and yesterday's row of the same key all exist.
C29_Witness ==
    /\ today = 1
    /\ response.op = "increment_and_check"
    /\ response.user = "u1" /\ response.feature = "quest_daily"
    /\ response.writes = <<1>>
    /\ UsageKey("u1", "quest_daily", 0) \in DOMAIN feature_usage
    /\ UsageKey("u1", "basic_ask", 1) \in DOMAIN feature_usage
    /\ UsageKey("u2", "quest_daily", 1) \in DOMAIN feature_usage
    /\ user_subscriptions # <<>>

(***************************************************************************)
(* ClockSpec: tracked checks and get_reset_time at sampled seconds of the  *)
(* day, the first and the last second included.                            *)
(***************************************************************************)
\* Every ClockStep-th second of the day is sampled.
ClockStep == 600
SecondsOfDay == {s \in 0..(SECONDS_PER_DAY - 1) : s % ClockStep = 0}
                   \cup {1, SECONDS_PER_DAY - 1}
ClockUsers == {"u1"}
ClockFeatures == {"quest_daily"}

ClockNext ==
    \/ \E u \in ClockUsers, f \in ClockFeatures, s \in SecondsOfDay :
          CheckRateLimitAt(u, f, s)
    \/ \E s \in SecondsOfDay : GetResetTime(s)
    \/ Tick

ClockSpec == Init /\ [][ClockNext]_vars

\* C28: for a tracked check at any second of the day, reset_time is the start
\* of the next calendar day and reset_seconds the number of seconds from now
\* to it: 0 <= reset_seconds <= 86400 and now + reset_seconds does not pass
\* the next midnight; get_reset_time at the same second gives the same instant.
C28_ResetAtNextMidnight ==
    LET next_midnight == ((response.now \div SECONDS_PER_DAY) + 1) * SECONDS_PER_DAY
    IN  /\ ( response.op = "check_rate_limit" /\ response.limit_type = "daily" )
           => /\ response.reset_time = next_midnight
              /\ response.reset_time = (today + 1) * 86400
              /\ response.reset_seconds = response.reset_time - response.now
              /\ response.reset_seconds >= 0
              /\ response.reset_seconds <= 86400
              /\ response.now + response.reset_seconds <= next_midnight
              /\ get_reset_time(response.now) = response.reset_time
        /\ response.op = "get_reset_time"
           => response.reset_time = next_midnight

\* C28 witness: a check in the last second of day 1 reports one second to
\* the start of day 2.
C28_Witness ==
    /\ response.op = "check_rate_limit"
    /\ response.limit_type = "daily"
    /\ today = 1
    /\ response.now = 2 * 86400 - 1
    /\ response.reset_seconds = 1
    /\ response.reset_time = 2 * 86400

(***************************************************************************)
(* OutageSpec: the rate-limit calls and gates of a free user while any one *)
(* of a call's store calls may fail.                                       *)
(***************************************************************************)
OutageUsers == {"u1"}
\* quest_daily is tracked (limit 1 at free), basic_ask has no limit entry.
OutageFeatures == {"quest_daily", "basic_ask"}
OutageTracked == {"quest_daily"}

OutageNext ==
    \/ \E u \in OutageUsers, f \in OutageFeatures, x \in StoreCalls \cup {Unset} :
          CheckRateLimitFailing(u, f, x)
    \/ \E u \in OutageUsers, f \in OutageTracked, x \in StoreCalls \cup {Unset} :
          \E a \in 1..MaxAmount : IncrementAndCheckFailing(u, f, a, x)
    \/ \E u \in OutageUsers, f \in OutageFeatures, x \in StoreCalls \cup {Unset} :
          VerifyUsageLimitFailing(u, f, x)
    \/ \E u \in OutageUsers, f \in OutageTracked, x \in StoreCalls \cup {Unset} :
          \E a \in 1..MaxAmount : TrackUsageFailing(u, f, a, x)
    \/ Tick

OutageSpec == Init /\ [][OutageNext]_vars

====
